---- MODULE Spec2Model ----
(***************************************************************************)
(* Task manager: a React client (Dashboard, TaskList, TaskForm, auth       *)
(* wrapper) in front of a hosted data layer with row-level access          *)
(* policies.  One browser session is modelled together with the tables it  *)
(* talks to; users take turns in that browser by signing in and out.       *)
(* The handlers are modelled twice: as one step each, and split at their   *)
(* awaits, where identity lookups and task requests overlap.               *)
(***************************************************************************)
EXTENDS Integers, Sequences, FiniteSets, TLC

(***************************************************************************)
(* Bounds of the model and constants of the program.                       *)
(***************************************************************************)
MaxTasks == 2

TitleMin == 1
TitleMax == 200
DescriptionMax == 1000

Users == {"u1", "u2"}
NoUser == "none"
TaskIds == 1..MaxTasks
NoId == 0

Statuses == {"pending", "in_progress", "completed"}
Priorities == {"low", "medium", "high"}
Roles == {"user", "admin"}
NoRole == "none"

(***************************************************************************)
(* Strings.  A string is kept run-length encoded: a sequence of runs       *)
(* [ch, n], n >= 1, neighbouring runs of different characters.  Rep(c, n)  *)
(* is the character c repeated n times, Concat(s, t) is concatenation.     *)
(***************************************************************************)
Rep(c, n) == IF n = 0 THEN << >> ELSE << [ch |-> c, n |-> n] >>

Concat(s, t) ==
    IF s = << >> THEN t
    ELSE IF t = << >> THEN s
    ELSE IF s[Len(s)].ch = t[1].ch
         THEN SubSeq(s, 1, Len(s) - 1)
              \o << [ch |-> t[1].ch, n |-> s[Len(s)].n + t[1].n] >>
              \o Tail(t)
         ELSE s \o t

RECURSIVE StrLen(_)
StrLen(s) == IF s = << >> THEN 0 ELSE Head(s).n + StrLen(Tail(s))

IsSpace(c) == c = " "

RECURSIVE TrimStart(_)
TrimStart(s) ==
    IF s = << >> THEN s
    ELSE IF IsSpace(Head(s).ch) THEN TrimStart(Tail(s)) ELSE s

RECURSIVE TrimEnd(_)
TrimEnd(s) ==
    IF s = << >> THEN s
    ELSE IF IsSpace(s[Len(s)].ch) THEN TrimEnd(SubSeq(s, 1, Len(s) - 1)) ELSE s

\* String.prototype.trim, as zod's .trim() applies it
Trim(s) == TrimEnd(TrimStart(s))

EmptyStr == << >>

(***************************************************************************)
(* Dates.  The form holds the text of the date input; the stored value is  *)
(* the ISO timestamp new Date(text).toISOString() yields.                  *)
(***************************************************************************)
ValidDateTexts == {"2024-12-31"}
InvalidDateTexts == {"20222-13-45"}
DateTexts == {""} \cup ValidDateTexts \cup InvalidDateTexts

\* new Date(text) is a valid instant
DateParses(text) == text \in ValidDateTexts

\* new Date(text).toISOString() for a text that parses
toISOString(text) == [date |-> text, time |-> "00:00:00.000Z"]

\* iso.split('T')[0]
DatePart(iso) == iso.date

(***************************************************************************)
(* TaskForm: the form state and taskSchema.  parse collects the issues of  *)
(* every field, in the order of the schema's keys; within the title the    *)
(* checks run in the order trim, min, max, so min and max see the trimmed  *)
(* value.                                                                  *)
(***************************************************************************)
DefaultForm ==
    [title |-> EmptyStr, description |-> EmptyStr, status |-> "pending",
     priority |-> "medium", due_date |-> ""]

\* useState initialiser of formData for the task being edited
FormOfTask(task) ==
    [title |-> task.title,
     description |-> IF task.description = {} THEN EmptyStr
                     ELSE CHOOSE d \in task.description : TRUE,
     status |-> task.status,
     priority |-> task.priority,
     due_date |-> IF task.due_date = {} THEN ""
                  ELSE DatePart(CHOOSE d \in task.due_date : TRUE)]

\* mutant: the upper bound is exclusive
TitleIssuesExclusiveMax(title) ==
    LET v == Trim(title)
    IN  (IF StrLen(v) < TitleMin THEN << "Title is required" >> ELSE << >>)
        \o (IF StrLen(v) >= TitleMax THEN << "Title too long" >> ELSE << >>)

TitleIssues(title) ==
    LET v == Trim(title)
    IN  (IF StrLen(v) < TitleMin THEN << "Title is required" >> ELSE << >>)
        \o (IF StrLen(v) > TitleMax THEN << "Title too long" >> ELSE << >>)

\* description: formData.description || undefined, optional
DescriptionIssues(description) ==
    IF description = EmptyStr THEN << >>
    ELSE IF StrLen(description) > DescriptionMax
         THEN << "Description too long" >> ELSE << >>

StatusIssues(status) ==
    IF status \in Statuses THEN << >> ELSE << "Invalid enum value" >>

PriorityIssues(priority) ==
    IF priority \in Priorities THEN << >> ELSE << "Invalid enum value" >>

\* due_date: z.string().optional(): every text of the input passes
DueDateIssues(due_date) == << >>

\* mutant: the description is checked before the title
SchemaIssuesDescriptionFirst(fd) ==
    DescriptionIssues(fd.description) \o TitleIssues(fd.title)
    \o StatusIssues(fd.status) \o PriorityIssues(fd.priority)
    \o DueDateIssues(fd.due_date)

\* taskSchema.parse(...): the list of issues, empty when the form passes
SchemaIssues(fd) ==
    TitleIssues(fd.title) \o DescriptionIssues(fd.description)
    \o StatusIssues(fd.status) \o PriorityIssues(fd.priority)
    \o DueDateIssues(fd.due_date)

\* taskData of handleSubmit, for a form whose due date converts
TaskData(fd, userId) ==
    [title |-> fd.title,
     description |-> IF fd.description = EmptyStr THEN {} ELSE {fd.description},
     status |-> fd.status,
     priority |-> fd.priority,
     due_date |-> IF fd.due_date = "" THEN {} ELSE {toISOString(fd.due_date)},
     user_id |-> userId]

\* new Date(formData.due_date).toISOString() throws a RangeError
DueDateThrows(fd) == fd.due_date # "" /\ ~DateParses(fd.due_date)

(***************************************************************************)
(* The data layer: tables behind row-level policies.  A request carries    *)
(* the caller's identity (auth.uid()); a row the policy hides from the     *)
(* caller is, for that request, not there.                                 *)
(***************************************************************************)
NoError == ""
PolicyError == "new row violates row-level security policy"
StorageError == "Failed to fetch"

\* mutant: every signed-in caller sees every row
TaskVisibleToAll(caller, row) == caller # NoUser

\* tasks: read, update and delete only where the owner is the caller
TaskVisible(caller, row) == caller # NoUser /\ row.user_id = caller

\* tasks: a written row must be owned by the caller
TaskWritable(caller, row) == caller # NoUser /\ row.user_id = caller

\* mutant: an update leaves a status that is already stored
PatchedKeepStatus(row, patch) ==
    [f \in DOMAIN row |->
        IF f \in DOMAIN patch /\ f # "status" THEN patch[f] ELSE row[f]]

\* the row with the fields of patch overwritten
Patched(row, patch) ==
    [f \in DOMAIN row |-> IF f \in DOMAIN patch THEN patch[f] ELSE row[f]]

RECURSIVE NewestFirst(_)
NewestFirst(rows) ==
    IF rows = {} THEN << >>
    ELSE LET r == CHOOSE x \in rows : \A y \in rows : y.id <= x.id
         IN  << r >> \o NewestFirst(rows \ {r})

\* from('tasks').select('*').order('created_at', { ascending: false })
SelectTasks(table, caller, fail) ==
    IF fail THEN [data |-> << >>, error |-> StorageError]
    ELSE [data |-> NewestFirst({r \in table : TaskVisible(caller, r)}),
          error |-> NoError]

\* from('tasks').update(patch).eq('id', id)
UpdateTasks(table, caller, id, patch, fail) ==
    LET hit == {r \in table : r.id = id /\ TaskVisible(caller, r)}
        new == {Patched(r, patch) : r \in hit}
    IN  IF fail THEN [table |-> table, error |-> StorageError, count |-> 0]
        ELSE IF \E r \in new : ~TaskWritable(caller, r)
             THEN [table |-> table, error |-> PolicyError, count |-> 0]
             ELSE [table |-> (table \ hit) \cup new, error |-> NoError,
                   count |-> Cardinality(hit)]

\* from('tasks').delete().eq('id', id)
DeleteTasks(table, caller, id, fail) ==
    LET hit == {r \in table : r.id = id /\ TaskVisible(caller, r)}
    IN  IF fail THEN [table |-> table, error |-> StorageError, count |-> 0]
        ELSE [table |-> table \ hit, error |-> NoError,
              count |-> Cardinality(hit)]

\* from('tasks').insert([data]); the table assigns the id
InsertTask(table, caller, id, data, fail) ==
    LET row == [id |-> id] @@ data
    IN  IF fail THEN [table |-> table, error |-> StorageError, count |-> 0]
        ELSE IF ~TaskWritable(caller, row)
             THEN [table |-> table, error |-> PolicyError, count |-> 0]
             ELSE [table |-> table \cup {row}, error |-> NoError, count |-> 1]

(***************************************************************************)
(* Roles and profiles.  user_roles holds one row per registered user; the  *)
(* role check of the policies reads the stored row of the caller.          *)
(***************************************************************************)
EmailOf(u) == IF u = "u1" THEN "u1@example.com" ELSE "u2@example.com"
FullNameOf(u) == IF u = "u1" THEN "User One" ELSE "User Two"
NoName == "undefined"

\* has_role(auth.uid(), 'admin'), evaluated on the stored rows
IsAdmin(roles, caller) == caller # NoUser /\ roles[caller] = "admin"

\* user_roles: a caller reads only the own row
RoleVisible(caller, u) == caller # NoUser /\ caller = u

\* mutant: every signed-in caller updates role rows
RoleUpdatableByAll(roles, caller) == caller # NoUser

\* user_roles: only a caller who is admin updates a row
RoleUpdatable(roles, caller) == IsAdmin(roles, caller)

\* PUT /user_roles: from('user_roles').update({ role }).eq('user_id', target)
UpdateRole(roles, caller, target, role, fail) ==
    LET hit == {u \in Users : u = target /\ roles[u] # NoRole
                              /\ RoleUpdatable(roles, caller)}
    IN  IF fail THEN [roles |-> roles, error |-> StorageError, count |-> 0]
        ELSE [roles |-> [u \in Users |-> IF u \in hit THEN role ELSE roles[u]],
              error |-> NoError, count |-> Cardinality(hit)]

\* registration: identity, profile row and the default role row
RegisteredRoles(roles, u) == [roles EXCEPT ![u] = "user"]

(***************************************************************************)
(* lib/auth.ts                                                             *)
(***************************************************************************)
Null == [some |-> FALSE]

\* supabase.auth.getSession(): the session of this browser, or an error
GetSession(sess, fail) ==
    IF fail THEN [user |-> NoUser, error |-> TRUE]
    ELSE [user |-> sess, error |-> FALSE]

\* from('user_roles').select('role').eq('user_id', u).single(): data or null
RoleData(roles, caller, u, fail) ==
    IF fail \/ ~RoleVisible(caller, u) THEN NoRole ELSE roles[u]

\* from('profiles').select('full_name').eq('id', u).single(): data or null
ProfileData(profs, caller, u, fail) ==
    IF fail \/ caller # u \/ u \notin profs THEN NoName ELSE FullNameOf(u)

\* mutant: the default role is admin
ResolvedRoleDefaultAdmin(roleData) ==
    IF roleData = NoRole THEN "admin" ELSE roleData

\* roleData?.role || 'user'
ResolvedRole(roleData) == IF roleData = NoRole THEN "user" ELSE roleData

\* the lookups of a call that came back without data
FailedLookups(s, roleData, profileData) ==
    {c \in {"auth.getSession"} : s.error}
    \cup {c \in {"user_roles.select"} : roleData = NoRole}
    \cup {c \in {"profiles.select"} : profileData = NoName}

\* mutant: a lookup without data makes the whole call yield nothing
getCurrentUserStrict(sess, roles, profs, sFail, rFail, pFail) ==
    LET s == GetSession(sess, sFail)
    IN  IF s.error \/ s.user = NoUser
        THEN [ret |-> Null, calls |-> << "auth.getSession" >>,
              failed |-> FailedLookups(s, "", "")]
        ELSE LET roleData == RoleData(roles, s.user, s.user, rFail)
                 profileData == ProfileData(profs, s.user, s.user, pFail)
             IN  [ret |-> IF roleData = NoRole \/ profileData = NoName
                          THEN Null
                          ELSE [some |-> TRUE,
                                id |-> s.user,
                                email |-> EmailOf(s.user),
                                full_name |-> profileData,
                                role |-> ResolvedRole(roleData)],
                  calls |-> << "auth.getSession", "user_roles.select",
                               "profiles.select" >>,
                  failed |-> FailedLookups(s, roleData, profileData)]

\* mutant: the lookups are sent before the session is looked at
getCurrentUserEager(sess, roles, profs, sFail, rFail, pFail) ==
    LET s == GetSession(sess, sFail)
        roleData == RoleData(roles, s.user, s.user, rFail)
        profileData == ProfileData(profs, s.user, s.user, pFail)
    IN  [ret |-> IF s.error \/ s.user = NoUser
                 THEN Null
                 ELSE [some |-> TRUE,
                       id |-> s.user,
                       email |-> EmailOf(s.user),
                       full_name |-> profileData,
                       role |-> ResolvedRole(roleData)],
         calls |-> << "auth.getSession", "user_roles.select",
                      "profiles.select" >>,
         failed |-> FailedLookups(s, roleData, profileData)]

\* getCurrentUser: ret is the value returned, calls the requests issued,
\* failed those of them that yielded no data
getCurrentUser(sess, roles, profs, sFail, rFail, pFail) ==
    LET s == GetSession(sess, sFail)
    IN  IF s.error \/ s.user = NoUser
        THEN [ret |-> Null, calls |-> << "auth.getSession" >>,
              failed |-> FailedLookups(s, "", "")]
        ELSE LET roleData == RoleData(roles, s.user, s.user, rFail)
                 profileData == ProfileData(profs, s.user, s.user, pFail)
             IN  [ret |-> [some |-> TRUE,
                           id |-> s.user,
                           email |-> EmailOf(s.user),
                           full_name |-> profileData,
                           role |-> ResolvedRole(roleData)],
                  calls |-> << "auth.getSession", "user_roles.select",
                               "profiles.select" >>,
                  failed |-> FailedLookups(s, roleData, profileData)]

(***************************************************************************)
(* State.                                                                  *)
(***************************************************************************)
VARIABLES
    profiles,       \* table profiles: the registered users
    user_roles,     \* table user_roles: user -> role, NoRole without a row
    tasksTable,     \* table tasks: a set of rows
    nextId,         \* the id the next inserted task gets
    session,        \* the browser's session: its user, or NoUser
    route,          \* the page shown: "/", "/auth" or "/dashboard"
    user,           \* Dashboard: the cached current user
    tasks,          \* Dashboard: the cached task list
    isLoading,      \* Dashboard: the loading screen is shown
    dialogOpen,     \* Dashboard: the create dialog is open
    editTask,       \* TaskList: the task being edited, {} when none
    deleteTaskId,   \* TaskList: the task to be deleted, NoId when none
    formData,       \* TaskForm: the fields of the mounted form
    formLoading,    \* TaskForm: isLoading
    indexLoading,   \* Index: isLoading
    events,         \* auth events not yet delivered to the Dashboard's listener
    lookups,        \* Dashboard: the calls of getCurrentUser not yet resumed
    requests,       \* TaskList, TaskForm, Dashboard: the task requests awaited
    last            \* what the last handler did (observation only)

server == << profiles, user_roles, tasksTable, nextId >>
dashboard == << user, tasks, isLoading, dialogOpen >>
tasklist == << editTask, deleteTaskId >>
form == << formData, formLoading >>
async == << events, lookups, requests >>
vars == << profiles, user_roles, tasksTable, nextId, session, route, user,
           tasks, isLoading, dialogOpen, editTask, deleteTaskId, formData,
           formLoading, indexLoading, events, lookups, requests, last >>

Obs(op, id, calls, toasts) ==
    [op |-> op, id |-> id, calls |-> calls, toasts |-> toasts,
     ret |-> Null, failed |-> {}, threw |-> FALSE, count |-> 0,
     error |-> NoError, arg |-> "", edit |-> FALSE, form |-> DefaultForm,
     owner |-> NoUser]

\* the observation of a handler that got the response resp to its request
Answered(obs, resp) == [obs EXCEPT !.count = resp.count, !.error = resp.error]

\* the observation of a handler that called getCurrentUser
Looked(obs, r) == [obs EXCEPT !.ret = r.ret, !.failed = r.failed]

\* the observation of handleSubmit
Submitted(obs) == [obs EXCEPT !.form = formData, !.edit = (editTask # {})]

Toast(title, description) == [title |-> title, description |-> description]

\* a component that is not mounted holds its initial state
Unmounted ==
    /\ user' = Null
    /\ tasks' = << >>
    /\ isLoading' = TRUE
    /\ dialogOpen' = FALSE
    /\ editTask' = {}
    /\ deleteTaskId' = NoId
    /\ formData' = DefaultForm
    /\ formLoading' = FALSE

Init ==
    /\ profiles = {}
    /\ user_roles = [u \in Users |-> NoRole]
    /\ tasksTable = {}
    /\ nextId = 1
    /\ session = NoUser
    /\ route = "/"
    /\ user = Null
    /\ tasks = << >>
    /\ isLoading = TRUE
    /\ dialogOpen = FALSE
    /\ editTask = {}
    /\ deleteTaskId = NoId
    /\ formData = DefaultForm
    /\ formLoading = FALSE
    /\ indexLoading = TRUE
    /\ events = << >>
    /\ lookups = {}
    /\ requests = {}
    /\ last = Obs("init", NoId, << >>, << >>)

(***************************************************************************)
(* Pages and session.                                                      *)
(***************************************************************************)
\* the browser is pointed at a page, which mounts it
Visit(path) ==
    /\ path \in {"/", "/dashboard"}
    /\ route' = path
    /\ indexLoading' = TRUE
    /\ Unmounted
    /\ last' = Obs("visit", NoId, << >>, << >>)
    /\ UNCHANGED << server, session >>
    /\ UNCHANGED async

\* Index: useEffect
IndexEffect(sFail, rFail, pFail) ==
    /\ route = "/"
    /\ indexLoading
    /\ LET r == getCurrentUser(session, user_roles, profiles, sFail, rFail, pFail)
       IN  /\ IF r.ret.some
              THEN route' = "/dashboard" /\ indexLoading' = indexLoading
              ELSE route' = route /\ indexLoading' = FALSE
           /\ last' = Looked(Obs("Index", NoId, r.calls, << >>), r)
    /\ Unmounted
    /\ UNCHANGED << server, session >>
    /\ UNCHANGED async

\* Index: the Get Started and View Demo buttons
GetStarted ==
    /\ route = "/"
    /\ ~indexLoading
    /\ route' = "/auth"
    /\ last' = Obs("navigate", NoId, << >>, << >>)
    /\ UNCHANGED << server, session, dashboard, tasklist, form, indexLoading >>
    /\ UNCHANGED async

\* signUp, and the registration it triggers; the new session opens the dashboard
signUp(u) ==
    /\ route = "/auth"
    /\ session = NoUser
    /\ u \notin profiles
    /\ profiles' = profiles \cup {u}
    /\ user_roles' = RegisteredRoles(user_roles, u)
    /\ session' = u
    /\ route' = "/dashboard"
    /\ Unmounted
    /\ last' = Obs("signUp", NoId, << "auth.signUp" >>, << >>)
    /\ UNCHANGED << tasksTable, nextId, indexLoading >>
    /\ UNCHANGED async

\* signIn with the credentials of a registered user
signIn(u) ==
    /\ route = "/auth"
    /\ session = NoUser
    /\ u \in profiles
    /\ session' = u
    /\ route' = "/dashboard"
    /\ Unmounted
    /\ last' = Obs("signIn", NoId, << "auth.signInWithPassword" >>, << >>)
    /\ UNCHANGED << server, indexLoading >>
    /\ UNCHANGED async

\* Dashboard.handleLogout: signOut, then navigate('/auth')
handleLogout ==
    /\ route = "/dashboard"
    /\ ~isLoading
    /\ session' = NoUser
    /\ route' = "/auth"
    /\ Unmounted
    /\ last' = Obs("handleLogout", NoId, << "auth.signOut" >>, << >>)
    /\ UNCHANGED << server, indexLoading >>
    /\ UNCHANGED async

\* the operator of the backend sets a role row by hand
BackendSetRole(u, role) ==
    /\ u \in profiles
    /\ user_roles[u] # role
    /\ user_roles' = [user_roles EXCEPT ![u] = role]
    /\ last' = Obs("BackendSetRole", NoId, << >>, << >>)
    /\ UNCHANGED << profiles, tasksTable, nextId, session, route, dashboard,
                    tasklist, form, indexLoading >>
    /\ UNCHANGED async

\* PUT /user_roles/:id, sent with the session of this browser
updateUserRole(target, role, fail) ==
    /\ session # NoUser
    /\ LET resp == UpdateRole(user_roles, session, target, role, fail)
       IN  /\ user_roles' = resp.roles
           /\ last' = Answered([Obs("updateUserRole", NoId,
                                     << "user_roles.update" >>, << >>)
                                 EXCEPT !.arg = target], resp)
    /\ UNCHANGED << profiles, tasksTable, nextId, session, route, dashboard,
                    tasklist, form, indexLoading >>
    /\ UNCHANGED async

(***************************************************************************)
(* Dashboard.                                                              *)
(***************************************************************************)
\* loadTasks: the new cache and what it reports
loadTasks(table, caller, cache, fail) ==
    LET resp == SelectTasks(table, caller, fail)
    IN  IF resp.error # NoError
        THEN [tasks |-> cache,
              toasts |-> << Toast("Error", "Failed to load tasks") >>]
        ELSE [tasks |-> resp.data, toasts |-> << >>]

\* checkAuth, run by the effect of the mounted Dashboard
checkAuth(sFail, rFail, pFail, lFail) ==
    /\ route = "/dashboard"
    /\ isLoading
    /\ LET r == getCurrentUser(session, user_roles, profiles, sFail, rFail, pFail)
           l == loadTasks(tasksTable, session, tasks, lFail)
       IN  IF ~r.ret.some
           THEN /\ route' = "/auth"
                /\ Unmounted
                /\ last' = Looked(Obs("checkAuth", NoId, r.calls, << >>), r)
           ELSE /\ route' = route
                /\ user' = r.ret
                /\ tasks' = l.tasks
                /\ isLoading' = FALSE
                /\ last' = Looked(Obs("checkAuth", NoId,
                                       r.calls \o << "tasks.select" >>,
                                       l.toasts), r)
                /\ UNCHANGED << dialogOpen, tasklist, form >>
    /\ UNCHANGED << server, session, indexLoading >>
    /\ UNCHANGED async

Ready == route = "/dashboard" /\ ~isLoading
NoDialog == ~dialogOpen /\ editTask = {} /\ deleteTaskId = NoId
FormMounted == dialogOpen \/ editTask # {}

(***************************************************************************)
(* TaskList.  The handlers take the task id they are called with; the      *)
(* page passes ids of cached tasks, a hand-made call passes any id.        *)
(***************************************************************************)
\* mutant: the update also resets the priority
StatusPatchWithPriority(newStatus) ==
    [status |-> newStatus, priority |-> "medium"]

\* what handleStatusChange sends
StatusPatch(newStatus) == [status |-> newStatus]

handleStatusChange(taskId, newStatus, fail, lFail) ==
    /\ Ready
    /\ NoDialog
    /\ LET resp == UpdateTasks(tasksTable, session, taskId,
                               StatusPatch(newStatus), fail)
           l == loadTasks(resp.table, session, tasks, lFail)
       IN  /\ tasksTable' = resp.table
           /\ IF resp.error # NoError
              THEN /\ tasks' = tasks
                   /\ last' = Answered(
                          [Obs("handleStatusChange", taskId,
                               << "tasks.update" >>,
                               << Toast("Error", "Failed to update task status") >>)
                           EXCEPT !.arg = newStatus], resp)
              ELSE /\ tasks' = l.tasks
                   /\ last' = Answered(
                          [Obs("handleStatusChange", taskId,
                               << "tasks.update", "tasks.select" >>,
                               << Toast("Success", "Task status updated") >>
                               \o l.toasts)
                           EXCEPT !.arg = newStatus], resp)
    /\ UNCHANGED << profiles, user_roles, nextId, session, route, user,
                    isLoading, dialogOpen, tasklist, form, indexLoading >>
    /\ UNCHANGED async

\* the delete button of a task
setDeleteTaskId(taskId) ==
    /\ Ready
    /\ NoDialog
    /\ deleteTaskId' = taskId
    /\ last' = Obs("setDeleteTaskId", taskId, << >>, << >>)
    /\ UNCHANGED << server, session, route, dashboard, editTask, form,
                    indexLoading >>
    /\ UNCHANGED async

\* the Delete button of the confirmation, which also closes it
handleDelete(fail, lFail) ==
    /\ Ready
    /\ deleteTaskId # NoId
    /\ LET resp == DeleteTasks(tasksTable, session, deleteTaskId, fail)
           l == loadTasks(resp.table, session, tasks, lFail)
       IN  /\ tasksTable' = resp.table
           /\ IF resp.error # NoError
              THEN /\ tasks' = tasks
                   /\ last' = Answered(
                          Obs("handleDelete", deleteTaskId, << "tasks.delete" >>,
                              << Toast("Error", "Failed to delete task") >>),
                          resp)
              ELSE /\ tasks' = l.tasks
                   /\ last' = Answered(
                          Obs("handleDelete", deleteTaskId,
                              << "tasks.delete", "tasks.select" >>,
                              << Toast("Success", "Task deleted successfully") >>
                              \o l.toasts),
                          resp)
    /\ deleteTaskId' = NoId
    /\ UNCHANGED << profiles, user_roles, nextId, session, route, user,
                    isLoading, dialogOpen, editTask, form, indexLoading >>
    /\ UNCHANGED async

\* the edit button of a task: the edit dialog mounts a TaskForm for it
setEditTask(task) ==
    /\ Ready
    /\ NoDialog
    /\ editTask' = {task}
    /\ formData' = FormOfTask(task)
    /\ formLoading' = FALSE
    /\ last' = Obs("setEditTask", task.id, << >>, << >>)
    /\ UNCHANGED << server, session, route, dashboard, deleteTaskId,
                    indexLoading >>
    /\ UNCHANGED async

\* the New Task button: the create dialog mounts an empty TaskForm
openCreate ==
    /\ Ready
    /\ NoDialog
    /\ dialogOpen' = TRUE
    /\ formData' = DefaultForm
    /\ formLoading' = FALSE
    /\ last' = Obs("openCreate", NoId, << >>, << >>)
    /\ UNCHANGED << server, session, route, user, tasks, isLoading, tasklist,
                    indexLoading >>
    /\ UNCHANGED async

\* onOpenChange of an open dialog: it closes and its content unmounts
closeDialog ==
    /\ Ready
    /\ ~NoDialog
    /\ dialogOpen' = FALSE
    /\ editTask' = {}
    /\ deleteTaskId' = NoId
    /\ formData' = DefaultForm
    /\ formLoading' = FALSE
    /\ last' = Obs("closeDialog", NoId, << >>, << >>)
    /\ UNCHANGED << server, session, route, user, tasks, isLoading,
                    indexLoading >>
    /\ UNCHANGED async

(***************************************************************************)
(* TaskForm.                                                               *)
(***************************************************************************)
onChange(field, value) ==
    /\ Ready
    /\ FormMounted
    /\ formData[field] # value
    /\ formData' = [formData EXCEPT ![field] = value]
    /\ last' = Obs("onChange", NoId, << >>, << >>)
    /\ UNCHANGED << server, session, route, dashboard, tasklist, formLoading,
                    indexLoading >>
    /\ UNCHANGED async

\* the props of the mounted form
FormTask == CHOOSE t \in editTask : TRUE
FormUserId == IF editTask # {} THEN FormTask.user_id ELSE user.id
FormTaskId == IF editTask # {} THEN FormTask.id ELSE NoId

\* the observation of a handleSubmit that sent its request: the user_id the
\* request carries
Sent(obs) == [Submitted(obs) EXCEPT !.owner = FormUserId]

\* taskSchema.parse threw: report the first issue and return
SubmitInvalid ==
    /\ SchemaIssues(formData) # << >>
    /\ last' = Submitted(Obs("handleSubmit", FormTaskId, << >>,
                             << Toast("Validation Error",
                                      SchemaIssues(formData)[1]) >>))
    /\ UNCHANGED << server, dashboard, tasklist, form >>

\* the conversion of the due date threw: the handler is left with
\* isLoading set
SubmitThrows ==
    /\ SchemaIssues(formData) = << >>
    /\ DueDateThrows(formData)
    /\ formLoading' = TRUE
    /\ last' = [Submitted(Obs("handleSubmit", FormTaskId, << >>, << >>))
                EXCEPT !.threw = TRUE]
    /\ UNCHANGED << server, dashboard, tasklist, formData >>

\* the update of the edited task
SubmitUpdate(fail, lFail) ==
    /\ SchemaIssues(formData) = << >>
    /\ ~DueDateThrows(formData)
    /\ editTask # {}
    /\ LET resp == UpdateTasks(tasksTable, session, FormTask.id,
                               TaskData(formData, FormUserId), fail)
           l == loadTasks(resp.table, session, tasks, lFail)
       IN  /\ tasksTable' = resp.table
           /\ IF resp.error # NoError
              THEN /\ last' = Answered(Sent(
                          Obs("handleSubmit", FormTaskId, << "tasks.update" >>,
                              << Toast("Error", resp.error) >>)), resp)
                   /\ UNCHANGED << tasks, editTask, form >>
              ELSE /\ last' = Answered(Sent(
                          Obs("handleSubmit", FormTaskId,
                              << "tasks.update", "tasks.select" >>,
                              << Toast("Success", "Task updated successfully") >>
                              \o l.toasts)), resp)
                   /\ tasks' = l.tasks
                   /\ editTask' = {}
                   /\ formData' = DefaultForm
                   /\ formLoading' = FALSE
    /\ UNCHANGED << profiles, user_roles, nextId, user, isLoading, dialogOpen,
                    deleteTaskId >>

\* the insert of the new task
SubmitInsert(fail, lFail) ==
    /\ SchemaIssues(formData) = << >>
    /\ ~DueDateThrows(formData)
    /\ editTask = {}
    /\ nextId <= MaxTasks
    /\ LET resp == InsertTask(tasksTable, session, nextId,
                              TaskData(formData, FormUserId), fail)
           l == loadTasks(resp.table, session, tasks, lFail)
       IN  /\ tasksTable' = resp.table
           /\ IF resp.error # NoError
              THEN /\ last' = Answered(Sent(
                          Obs("handleSubmit", NoId, << "tasks.insert" >>,
                              << Toast("Error", resp.error) >>)), resp)
                   /\ UNCHANGED << nextId, tasks, dialogOpen, form >>
              ELSE /\ last' = Answered(Sent(
                          Obs("handleSubmit", nextId,
                              << "tasks.insert", "tasks.select" >>,
                              << Toast("Success", "Task created successfully") >>
                              \o l.toasts)), resp)
                   /\ nextId' = nextId + 1
                   /\ tasks' = l.tasks
                   /\ dialogOpen' = FALSE
                   /\ formData' = DefaultForm
                   /\ formLoading' = FALSE
    /\ UNCHANGED << profiles, user_roles, user, isLoading, tasklist >>

\* TaskForm.handleSubmit
handleSubmit(fail, lFail) ==
    /\ Ready
    /\ FormMounted
    /\ ~formLoading
    /\ \/ SubmitInvalid
       \/ SubmitThrows
       \/ SubmitUpdate(fail, lFail)
       \/ SubmitInsert(fail, lFail)
    /\ UNCHANGED << session, route, indexLoading >>
    /\ UNCHANGED async

(***************************************************************************)
(* Dashboard, step by step.  The effect of the mounted Dashboard calls     *)
(* checkAuth and subscribes to the auth events; every event that carries   *)
(* a session schedules loadUser.  A call of getCurrentUser is awaited: it  *)
(* reads the session and the tables at one moment and its caller resumes   *)
(* at a later one, so calls overlap and resume in any order.               *)
(***************************************************************************)
MaxEvents == 2
MaxLookups == 2

Event(event, sess) == [event |-> event, session |-> sess]

\* the render of the task view threw on user!.id: the page is gone
Crashed == route = "/dashboard" /\ ~isLoading /\ ~user.some

\* the task view is on the screen
Rendered == Ready /\ user.some

\* the effect has run: checkAuth is under way or has let the page in
Subscribed ==
    /\ route = "/dashboard"
    /\ ~Crashed
    /\ (~isLoading \/ \E l \in lookups : l.by = "checkAuth")

\* a call of getCurrentUser that has not read anything yet
NewLookup(by) ==
    [by |-> by,
     n |-> CHOOSE i \in 1..MaxLookups : \A l \in lookups : l.n # i,
     pc |-> "called",
     r |-> [ret |-> Null, calls |-> << >>, failed |-> {}]]

\* the Dashboard is taken off the screen: its listener is unsubscribed and
\* what its pending calls set is dropped
DashboardGone ==
    /\ Unmounted
    /\ events' = << >>
    /\ lookups' = {}

\* useEffect of the Dashboard: checkAuth() and onAuthStateChange(...)
DashboardEffect ==
    /\ route = "/dashboard"
    /\ isLoading
    /\ ~Subscribed
    /\ lookups' = {NewLookup("checkAuth")}
    /\ events' = << >>
    /\ last' = Obs("useEffect", NoId, << >>, << >>)
    /\ UNCHANGED << server, session, route, dashboard, tasklist, form,
                    indexLoading, requests >>

\* the identity provider refreshes the token of the session
TokenRefreshed ==
    /\ Subscribed
    /\ session # NoUser
    /\ Len(events) < MaxEvents
    /\ events' = Append(events, Event("TOKEN_REFRESHED", session))
    /\ last' = Obs("TOKEN_REFRESHED", NoId, << >>, << >>)
    /\ UNCHANGED << server, session, route, dashboard, tasklist, form,
                    indexLoading, lookups, requests >>

\* a sign-in in another tab of the browser replaces the stored session
SignedIn(u) ==
    /\ Subscribed
    /\ u \in profiles
    /\ u # session
    /\ Len(events) < MaxEvents
    /\ session' = u
    /\ events' = Append(events, Event("SIGNED_IN", u))
    /\ last' = Obs("SIGNED_IN", NoId, << >>, << >>)
    /\ UNCHANGED << server, route, dashboard, tasklist, form, indexLoading,
                    lookups, requests >>

\* the session expires or is signed out in another tab
SignedOut ==
    /\ Subscribed
    /\ session # NoUser
    /\ Len(events) < MaxEvents
    /\ session' = NoUser
    /\ events' = Append(events, Event("SIGNED_OUT", NoUser))
    /\ last' = Obs("SIGNED_OUT", NoId, << >>, << >>)
    /\ UNCHANGED << server, route, dashboard, tasklist, form, indexLoading,
                    lookups, requests >>

\* the listener of the Dashboard gets the oldest undelivered event
onAuthStateChange ==
    /\ Subscribed
    /\ events # << >>
    /\ LET e == Head(events)
       IN  IF e.event = "SIGNED_OUT"
           THEN /\ route' = "/auth"
                /\ DashboardGone
           ELSE /\ IF e.session # NoUser
                   THEN /\ Cardinality(lookups) < MaxLookups
                        /\ lookups' = lookups \cup {NewLookup("loadUser")}
                   ELSE lookups' = lookups
                /\ events' = Tail(events)
                /\ UNCHANGED << route, dashboard, tasklist, form >>
    /\ last' = Obs("onAuthStateChange", NoId, << >>, << >>)
    /\ UNCHANGED << server, session, indexLoading, requests >>

\* an awaited getCurrentUser reads the session and the tables
getCurrentUserAnswered(l, sFail, rFail, pFail) ==
    /\ Subscribed
    /\ l \in lookups
    /\ l.pc = "called"
    /\ lookups' = (lookups \ {l}) \cup
          {[l EXCEPT !.pc = "answered",
                     !.r = getCurrentUser(session, user_roles, profiles,
                                          sFail, rFail, pFail)]}
    /\ last' = Obs("getCurrentUser", NoId, << >>, << >>)
    /\ UNCHANGED << server, session, route, dashboard, tasklist, form,
                    indexLoading, events, requests >>

\* mutant: checkAuth lets the page in without an identity
checkAuthResumeLetsIn(l, lFail) ==
    /\ Subscribed
    /\ l \in lookups
    /\ l.by = "checkAuth"
    /\ l.pc = "answered"
    /\ lookups' = lookups \ {l}
    /\ LET t == loadTasks(tasksTable, session, tasks, lFail)
       IN  /\ user' = l.r.ret
           /\ tasks' = t.tasks
           /\ isLoading' = FALSE
           /\ last' = Looked(Obs("checkAuth", NoId,
                                  l.r.calls \o << "tasks.select" >>,
                                  t.toasts), l.r)
           /\ UNCHANGED << route, dialogOpen, tasklist, form, events >>
    /\ UNCHANGED << server, session, indexLoading, requests >>

\* checkAuth resumes with what its getCurrentUser returned
checkAuthResume(l, lFail) ==
    /\ Subscribed
    /\ l \in lookups
    /\ l.by = "checkAuth"
    /\ l.pc = "answered"
    /\ LET t == loadTasks(tasksTable, session, tasks, lFail)
       IN  IF ~l.r.ret.some
           THEN /\ route' = "/auth"
                /\ DashboardGone
                /\ last' = Looked(Obs("checkAuth", NoId, l.r.calls, << >>), l.r)
           ELSE /\ lookups' = lookups \ {l}
                /\ user' = l.r.ret
                /\ tasks' = t.tasks
                /\ isLoading' = FALSE
                /\ last' = Looked(Obs("checkAuth", NoId,
                                       l.r.calls \o << "tasks.select" >>,
                                       t.toasts), l.r)
                /\ UNCHANGED << route, dialogOpen, tasklist, form, events >>
    /\ UNCHANGED << server, session, indexLoading, requests >>

\* loadUser resumes: setUser(currentUser), whatever it is
loadUserResume(l) ==
    /\ Subscribed
    /\ l \in lookups
    /\ l.by = "loadUser"
    /\ l.pc = "answered"
    /\ lookups' = lookups \ {l}
    /\ user' = l.r.ret
    /\ last' = Looked(Obs("loadUser", NoId, l.r.calls, << >>), l.r)
    /\ UNCHANGED << server, session, route, tasks, isLoading, dialogOpen,
                    tasklist, form, indexLoading, events, requests >>

(***************************************************************************)
(* Task requests, step by step.  A handler sends its request and is        *)
(* suspended at the await; the data layer serves the request at a later    *)
(* moment and the handler resumes with the answer at a still later one.    *)
(* Nothing in TaskList is disabled meanwhile; the submit button of the     *)
(* form is, while its isLoading is set.                                    *)
(***************************************************************************)
MaxInFlight == 2

\* the request a handler awaits, sent with the session of the moment
NewRequest(others, h, call, id, patch) ==
    [h |-> h, call |-> call, id |-> id, patch |-> patch, caller |-> session,
     n |-> CHOOSE i \in 1..MaxInFlight : \A r \in others : r.n # i,
     pc |-> "sent", error |-> NoError, count |-> 0, data |-> << >>]

Room == Cardinality(requests) < MaxInFlight

CachedIds == {tasks[i].id : i \in DOMAIN tasks}

\* handleStatusChange up to its await
handleStatusChangeCall(taskId, newStatus) ==
    /\ Ready
    /\ NoDialog
    /\ taskId \in CachedIds
    /\ Room
    /\ requests' = requests \cup
          {NewRequest(requests, "handleStatusChange", "tasks.update", taskId,
                      {StatusPatch(newStatus)})}
    /\ last' = Obs("call", NoId, << >>, << >>)
    /\ UNCHANGED << server, session, route, dashboard, tasklist, form,
                    indexLoading, events, lookups >>

\* the Delete button of the confirmation closes it and calls handleDelete,
\* which runs up to its await
handleDeleteCall ==
    /\ Ready
    /\ deleteTaskId # NoId
    /\ Room
    /\ requests' = requests \cup
          {NewRequest(requests, "handleDelete", "tasks.delete", deleteTaskId,
                      {})}
    /\ deleteTaskId' = NoId
    /\ last' = Obs("call", NoId, << >>, << >>)
    /\ UNCHANGED << server, session, route, dashboard, editTask, form,
                    indexLoading, events, lookups >>

\* handleSubmit of a form that does not pass taskSchema
handleSubmitInvalid ==
    /\ Ready
    /\ FormMounted
    /\ ~formLoading
    /\ SubmitInvalid
    /\ UNCHANGED << session, route, indexLoading, async >>

\* handleSubmit of a form that passes, up to its await
handleSubmitCall ==
    /\ Ready
    /\ FormMounted
    /\ ~formLoading
    /\ SchemaIssues(formData) = << >>
    /\ ~DueDateThrows(formData)
    /\ Room
    /\ formLoading' = TRUE
    /\ requests' = requests \cup
          {IF editTask # {}
           THEN NewRequest(requests, "handleSubmit", "tasks.update",
                           FormTask.id, {TaskData(formData, FormUserId)})
           ELSE NewRequest(requests, "handleSubmit", "tasks.insert", NoId,
                           {TaskData(formData, FormUserId)})}
    /\ last' = Obs("call", NoId, << >>, << >>)
    /\ UNCHANGED << server, session, route, dashboard, tasklist, formData,
                    indexLoading, events, lookups >>

\* the answer of the data layer to a request
Response(r, fail) ==
    LET patch == CHOOSE x \in r.patch : TRUE
    IN  CASE r.call = "tasks.update" ->
                UpdateTasks(tasksTable, r.caller, r.id, patch, fail)
                @@ [data |-> << >>]
          [] r.call = "tasks.delete" ->
                DeleteTasks(tasksTable, r.caller, r.id, fail)
                @@ [data |-> << >>]
          [] r.call = "tasks.insert" ->
                InsertTask(tasksTable, r.caller, nextId, patch, fail)
                @@ [data |-> << >>]
          [] r.call = "tasks.select" ->
                SelectTasks(tasksTable, r.caller, fail)
                @@ [table |-> tasksTable, count |-> 0]

\* the status the row of a request has, "" when there is no such row
StatusOf(id) ==
    IF \E row \in tasksTable : row.id = id
    THEN (CHOOSE row \in tasksTable : row.id = id).status
    ELSE ""

\* the data layer serves a request in flight
Serve(r, fail) ==
    /\ r \in requests
    /\ r.pc = "sent"
    /\ r.call = "tasks.insert" => nextId <= MaxTasks
    /\ LET resp == Response(r, fail)
       IN  /\ tasksTable' = resp.table
           /\ nextId' = IF r.call = "tasks.insert" /\ resp.error = NoError
                        THEN nextId + 1 ELSE nextId
           /\ requests' = (requests \ {r}) \cup
                 {[r EXCEPT !.pc = "answered", !.error = resp.error,
                            !.count = resp.count, !.data = resp.data]}
           /\ last' = Answered(
                  [Obs("Serve", r.id, << r.call >>, << >>)
                   EXCEPT !.arg = StatusOf(r.id),
                          !.edit = (r.h = "handleSubmit"
                                    /\ r.call = "tasks.update")],
                  resp)
    /\ UNCHANGED << profiles, user_roles, session, route, dashboard, tasklist,
                    form, indexLoading, events, lookups >>

\* onTasksChange / loadTasks up to its await
LoadTasksCalled(others) ==
    others \cup {NewRequest(others, "loadTasks", "tasks.select", NoId, {})}

\* handleStatusChange after its await
handleStatusChangeResume(r) ==
    /\ r.h = "handleStatusChange"
    /\ IF r.error # NoError
       THEN /\ requests' = requests \ {r}
            /\ last' = Answered(
                   Obs("handleStatusChange", r.id, << "tasks.update" >>,
                       << Toast("Error", "Failed to update task status") >>), r)
       ELSE /\ requests' = LoadTasksCalled(requests \ {r})
            /\ last' = Answered(
                   Obs("handleStatusChange", r.id,
                       << "tasks.update", "tasks.select" >>,
                       << Toast("Success", "Task status updated") >>), r)
    /\ UNCHANGED << dashboard, tasklist, form >>

\* mutant: a failed delete is sent again
handleDeleteResumeRetry(r) ==
    /\ r.h = "handleDelete"
    /\ IF r.error # NoError
       THEN /\ requests' = (requests \ {r}) \cup
                  {NewRequest(requests \ {r}, "handleDelete", "tasks.delete",
                              r.id, {})}
            /\ last' = Answered(
                   Obs("handleDelete", r.id, << "tasks.delete", "tasks.delete" >>,
                       << Toast("Error", "Failed to delete task") >>), r)
            /\ UNCHANGED deleteTaskId
       ELSE /\ requests' = LoadTasksCalled(requests \ {r})
            /\ last' = Answered(
                   Obs("handleDelete", r.id,
                       << "tasks.delete", "tasks.select" >>,
                       << Toast("Success", "Task deleted successfully") >>), r)
            /\ deleteTaskId' = NoId
    /\ UNCHANGED << dashboard, editTask, form >>

\* handleDelete after its await
handleDeleteResume(r) ==
    /\ r.h = "handleDelete"
    /\ IF r.error # NoError
       THEN /\ requests' = requests \ {r}
            /\ last' = Answered(
                   Obs("handleDelete", r.id, << "tasks.delete" >>,
                       << Toast("Error", "Failed to delete task") >>), r)
            /\ UNCHANGED deleteTaskId
       ELSE /\ requests' = LoadTasksCalled(requests \ {r})
            /\ last' = Answered(
                   Obs("handleDelete", r.id,
                       << "tasks.delete", "tasks.select" >>,
                       << Toast("Success", "Task deleted successfully") >>), r)
            /\ deleteTaskId' = NoId
    /\ UNCHANGED << dashboard, editTask, form >>

\* handleSubmit after its await; onSuccess reloads the list and closes the
\* dialog, which unmounts the form
handleSubmitResume(r) ==
    /\ r.h = "handleSubmit"
    /\ IF r.error # NoError
       THEN /\ requests' = requests \ {r}
            /\ formLoading' = FALSE
            /\ last' = Answered(Sent(
                   Obs("handleSubmit", r.id, << r.call >>,
                       << Toast("Error", r.error) >>)), r)
            /\ UNCHANGED << dialogOpen, editTask, formData >>
       ELSE /\ requests' = LoadTasksCalled(requests \ {r})
            /\ formLoading' = FALSE
            /\ formData' = DefaultForm
            /\ IF r.call = "tasks.update"
               THEN editTask' = {} /\ dialogOpen' = dialogOpen
               ELSE dialogOpen' = FALSE /\ editTask' = editTask
            /\ last' = Answered(Sent(
                   Obs("handleSubmit", r.id, << r.call, "tasks.select" >>,
                       << Toast("Success",
                                IF r.call = "tasks.update"
                                THEN "Task updated successfully"
                                ELSE "Task created successfully") >>)), r)
    /\ UNCHANGED << user, tasks, isLoading, deleteTaskId >>

\* loadTasks after its await
loadTasksResume(r) ==
    /\ r.h = "loadTasks"
    /\ requests' = requests \ {r}
    /\ IF r.error # NoError
       THEN /\ tasks' = tasks
            /\ last' = Answered(
                   Obs("loadTasks", NoId, << "tasks.select" >>,
                       << Toast("Error", "Failed to load tasks") >>), r)
       ELSE /\ tasks' = r.data
            /\ last' = Answered(
                   Obs("loadTasks", NoId, << "tasks.select" >>, << >>), r)
    /\ UNCHANGED << user, isLoading, dialogOpen, tasklist, form >>

\* a suspended handler resumes with the answer to its request
Resume(r) ==
    /\ Ready
    /\ r \in requests
    /\ r.pc = "answered"
    /\ \/ handleStatusChangeResume(r)
       \/ handleDeleteResume(r)
       \/ handleSubmitResume(r)
       \/ loadTasksResume(r)
    /\ UNCHANGED << server, session, route, indexLoading, events, lookups >>

(***************************************************************************)
(* Inputs and specifications.                                              *)
(***************************************************************************)
ShortTitles == {Rep("a", 1)}
EdgeTitles ==
    {Rep(" ", 1), Rep("a", TitleMax), Rep("a", TitleMax + 1),
     Concat(Rep("a", TitleMax), Rep(" ", 1))}
EdgeDescriptions == {EmptyStr, Rep("d", DescriptionMax), Rep("d", DescriptionMax + 1)}

CachedTasks == {tasks[i] : i \in DOMAIN tasks}

\* the auth page is open and nobody has registered yet
InitAtAuth ==
    /\ profiles = {}
    /\ user_roles = [u \in Users |-> NoRole]
    /\ tasksTable = {}
    /\ nextId = 1
    /\ session = NoUser
    /\ route = "/auth"
    /\ user = Null
    /\ tasks = << >>
    /\ isLoading = TRUE
    /\ dialogOpen = FALSE
    /\ editTask = {}
    /\ deleteTaskId = NoId
    /\ formData = DefaultForm
    /\ formLoading = FALSE
    /\ indexLoading = FALSE
    /\ events = << >>
    /\ lookups = {}
    /\ requests = {}
    /\ last = Obs("navigate", NoId, << >>, << >>)

(* Spec: two users take turns in the browser and work on tasks; an edit    *)
(* can be opened for a shown task or, hand-made, for any stored row.       *)
Next ==
    \/ \E u \in Users : signUp(u)
    \/ \E u \in Users : signIn(u)
    \/ handleLogout
    \/ checkAuth(FALSE, FALSE, FALSE, FALSE)
    \/ \E id \in TaskIds, st \in Statuses, fail \in BOOLEAN :
          handleStatusChange(id, st, fail, FALSE)
    \/ \E id \in TaskIds : setDeleteTaskId(id)
    \/ \E fail \in BOOLEAN : handleDelete(fail, FALSE)
    \/ \E task \in CachedTasks \cup tasksTable : setEditTask(task)
    \/ openCreate
    \/ closeDialog
    \/ \E t \in ShortTitles : onChange("title", t)
    \/ \E pr \in {"high"} : onChange("priority", pr)
    \/ \E d \in InvalidDateTexts : onChange("due_date", d)
    \/ \E fail \in BOOLEAN : handleSubmit(fail, FALSE)

Spec == InitAtAuth /\ [][Next]_vars

(* SpecForm: one user fills in and submits the create and edit forms with  *)
(* titles, descriptions and due dates at the edges of the schema.          *)
NextForm ==
    \/ signUp("u1")
    \/ checkAuth(FALSE, FALSE, FALSE, FALSE)
    \/ \E task \in CachedTasks : setEditTask(task)
    \/ openCreate
    \/ closeDialog
    \/ \E t \in EdgeTitles : onChange("title", t)
    \/ \E d \in EdgeDescriptions : onChange("description", d)
    \/ \E d \in DateTexts : onChange("due_date", d)
    \/ \E fail \in BOOLEAN : handleSubmit(fail, FALSE)

SpecForm == InitAtAuth /\ [][NextForm]_vars

(* SpecAuth: pages, sessions and roles; every lookup may fail.             *)
NextAuth ==
    \/ \E path \in {"/", "/dashboard"} : Visit(path)
    \/ \E sFail, rFail, pFail \in BOOLEAN : IndexEffect(sFail, rFail, pFail)
    \/ GetStarted
    \/ \E u \in Users : signUp(u)
    \/ \E u \in Users : signIn(u)
    \/ handleLogout
    \/ \E sFail, rFail, pFail, lFail \in BOOLEAN :
          checkAuth(sFail, rFail, pFail, lFail)
    \/ \E u \in Users, role \in Roles : BackendSetRole(u, role)
    \/ \E u \in Users, role \in Roles, fail \in BOOLEAN :
          updateUserRole(u, role, fail)

SpecAuth == Init /\ [][NextAuth]_vars

(* SpecSession: the Dashboard of a signed-in user while the session is     *)
(* refreshed, replaced or lost, with its identity lookups overlapping.     *)
NextSession ==
    \/ \E u \in Users : signUp(u)
    \/ \E u \in Users : signIn(u)
    \/ DashboardEffect
    \/ TokenRefreshed
    \/ \E u \in Users : SignedIn(u)
    \/ SignedOut
    \/ onAuthStateChange
    \/ \E l \in lookups, sFail \in BOOLEAN :
          getCurrentUserAnswered(l, sFail, FALSE, FALSE)
    \/ \E l \in lookups, lFail \in BOOLEAN : checkAuthResume(l, lFail)
    \/ \E l \in lookups : loadUserResume(l)

SpecSession == InitAtAuth /\ [][NextSession]_vars

(* SpecCreate: the same, with the create form used while the page is on    *)
(* the screen.                                                             *)
NextCreate ==
    \/ \E u \in Users : signUp(u)
    \/ DashboardEffect
    \/ TokenRefreshed
    \/ \E u \in Users : SignedIn(u)
    \/ SignedOut
    \/ onAuthStateChange
    \/ \E l \in lookups : getCurrentUserAnswered(l, FALSE, FALSE, FALSE)
    \/ \E l \in lookups : checkAuthResume(l, FALSE)
    \/ \E l \in lookups : loadUserResume(l)
    \/ Rendered /\ openCreate
    \/ \E t \in ShortTitles : Rendered /\ onChange("title", t)
    \/ \E fail \in BOOLEAN : Rendered /\ handleSubmit(fail, FALSE)

SpecCreate == InitAtAuth /\ [][NextCreate]_vars

\* the task u1 has created with the create form: title "a", the rest as
\* the form offers it
FirstTask == [id |-> 1] @@ TaskData([DefaultForm EXCEPT !.title = Rep("a", 1)], "u1")

\* u1 has registered, has created one task and has the Dashboard on the
\* screen with the list loaded
InitLoaded ==
    /\ profiles = {"u1"}
    /\ user_roles = RegisteredRoles([u \in Users |-> NoRole], "u1")
    /\ tasksTable = {FirstTask}
    /\ nextId = 2
    /\ session = "u1"
    /\ route = "/dashboard"
    /\ user = getCurrentUser("u1", user_roles, profiles, FALSE, FALSE, FALSE).ret
    /\ tasks = << FirstTask >>
    /\ isLoading = FALSE
    /\ dialogOpen = FALSE
    /\ editTask = {}
    /\ deleteTaskId = NoId
    /\ formData = DefaultForm
    /\ formLoading = FALSE
    /\ indexLoading = FALSE
    /\ events = << >>
    /\ lookups = {}
    /\ requests = {}
    /\ last = Obs("loadTasks", NoId, << "tasks.select" >>, << >>)

(* SpecRequests: one user changes the status of tasks, edits and deletes   *)
(* them while earlier requests are still in flight; a form is not closed   *)
(* by hand while its request is awaited.                                   *)
NextRequests ==
    \/ \E id \in TaskIds, st \in {"completed"} :
          handleStatusChangeCall(id, st)
    \/ \E id \in CachedIds : setDeleteTaskId(id)
    \/ handleDeleteCall
    \/ \E task \in CachedTasks : setEditTask(task)
    \/ ~formLoading /\ closeDialog
    \/ \E pr \in {"high"} : onChange("priority", pr)
    \/ handleSubmitCall
    \/ \E r \in requests : Serve(r, FALSE)
    \/ \E r \in requests : Resume(r)

SpecRequests == InitLoaded /\ [][NextRequests]_vars

(* SpecSerial: one user creates, edits, moves and deletes tasks, one       *)
(* request at a time; every request may fail in the data layer.            *)
NextSerial ==
    \/ \E id \in TaskIds, st \in Statuses :
          requests = {} /\ handleStatusChangeCall(id, st)
    \/ \E id \in CachedIds : setDeleteTaskId(id)
    \/ requests = {} /\ handleDeleteCall
    \/ \E task \in CachedTasks : setEditTask(task)
    \/ openCreate
    \/ ~formLoading /\ closeDialog
    \/ \E t \in ShortTitles : onChange("title", t)
    \/ handleSubmitInvalid
    \/ requests = {} /\ handleSubmitCall
    \/ \E r \in requests, fail \in BOOLEAN : Serve(r, fail)
    \/ \E r \in requests : Resume(r)

SpecSerial == InitLoaded /\ [][NextSerial]_vars

(***************************************************************************)
(* Properties.                                                             *)
(***************************************************************************)
\* the handler observed last called getCurrentUser
CalledGetCurrentUser == last.op \in {"Index", "checkAuth"}

\* the stored row with the id the last handler was called for belongs to
\* somebody else than the session's user
LastTargetForeign ==
    \E r \in tasksTable : r.id = last.id /\ r.user_id # session

\* the last handler sent an update or a delete for a task id and got an
\* answer from the data layer
LastWroteById ==
    /\ last.op \in {"handleStatusChange", "handleDelete", "handleSubmit"}
    /\ last.op = "handleSubmit" => last.edit
    /\ last.calls # << >>
    /\ last.error # StorageError

\* what the data layer answers to the same request for an id no row has
AnswerForAbsentId ==
    IF last.op = "handleDelete"
    THEN DeleteTasks(tasksTable, session, NoId, FALSE)
    ELSE UpdateTasks(tasksTable, session, NoId, StatusPatch("pending"), FALSE)

C1_ListOwn == \A i \in DOMAIN tasks : tasks[i].user_id = session

C1_SameAsAbsent ==
    LastWroteById /\ LastTargetForeign =>
        /\ last.error = AnswerForAbsentId.error
        /\ last.count = AnswerForAbsentId.count
        /\ last.toasts[1].title =
              IF AnswerForAbsentId.error = NoError THEN "Success" ELSE "Error"

C1_ForeignRowsKept ==
    \A r \in tasksTable : r.user_id # session => r \in tasksTable'

\* C1: the task list of the signed-in user never holds a task of another
\* user; no step taken under a user's session changes or removes a row of
\* another user; and a status change, edit or delete sent for the id of
\* another user's task is answered and reported as for an id no row has.
C1_TaskIsolation ==
    /\ [](C1_ListOwn /\ C1_SameAsAbsent)
    /\ [][C1_ForeignRowsKept]_vars

\* C1 witness: with own tasks listed, the user submitted an edit for the id
\* of another user's task, and the row is still there
C1_Witness ==
    /\ last.op = "handleSubmit" /\ LastWroteById /\ LastTargetForeign
    /\ last.error = NoError
    /\ tasks # << >>

C2_NonAdminDenied ==
    (last'.op = "updateUserRole" /\ ~IsAdmin(user_roles, session)) =>
        (user_roles' = user_roles /\ last'.count = 0)

C2_ChangeNeedsAdmin ==
    (user_roles' # user_roles /\ last'.op \notin {"signUp", "BackendSetRole"}) =>
        IsAdmin(user_roles, session)

\* C2: a role update sent by a caller whose stored role is not admin changes
\* no role row, the caller's own included, and touches no row; a request
\* changes a role row only if the caller's stored role, read before the
\* update, is admin.
C2_RoleUpdateAdminOnly ==
    [][C2_NonAdminDenied /\ C2_ChangeNeedsAdmin]_vars

\* C2 witness: a user with role user tried to make itself admin and is
\* still user
C2_Witness ==
    /\ last.op = "updateUserRole"
    /\ last.arg = session
    /\ last.error = NoError
    /\ last.count = 0
    /\ user_roles[session] = "user"

\* C3: getCurrentUser, with a live session, returns role admin only if the
\* caller's role row says admin, and role user otherwise.
C3_RoleResolution ==
    CalledGetCurrentUser /\ last.ret.some =>
        /\ last.ret.role \in Roles
        /\ last.ret.role = "admin" => user_roles[last.ret.id] = "admin"
        /\ user_roles[last.ret.id] # "admin" => last.ret.role = "user"

\* C3 witness: the first identity check after a registration returned role
\* user
C3_Witness ==
    /\ last.op = "checkAuth"
    /\ last.ret.some
    /\ last.ret.role = "user"
    /\ last.failed = {}
    /\ tasksTable = {} /\ Cardinality(profiles) = 1

\* the session call of the last getCurrentUser yielded the live session
SessionYielded ==
    CalledGetCurrentUser /\ session # NoUser /\ "auth.getSession" \notin last.failed

SecondaryFailed ==
    last.failed \cap {"user_roles.select", "profiles.select"} # {}

\* C4 as claimed: with a live session, when the role lookup or the profile
\* lookup fails, getCurrentUser returns the session's id and email, role
\* user and no display name.
C4_AsClaimed ==
    SessionYielded /\ SecondaryFailed =>
        /\ last.ret.some
        /\ last.ret.id = session
        /\ last.ret.email = EmailOf(session)
        /\ last.ret.role = "user"
        /\ last.ret.full_name = NoName

\* C4: with a live session getCurrentUser always returns an identity with
\* the session's id and email; a failed role lookup makes the role user and
\* a failed profile lookup leaves the display name out, each on its own.
C4_LookupFailureTolerated ==
    SessionYielded =>
        /\ last.ret.some
        /\ last.ret.id = session
        /\ last.ret.email = EmailOf(session)
        /\ "user_roles.select" \in last.failed => last.ret.role = "user"
        /\ "profiles.select" \in last.failed => last.ret.full_name = NoName

\* C4 witness: only the profile lookup failed; the identity came back
\* without a display name and with the stored role admin
C4_Witness ==
    /\ SessionYielded
    /\ last.failed = {"profiles.select"}
    /\ last.ret.some
    /\ last.ret.full_name = NoName
    /\ last.ret.role = "admin"

\* C5: without a session, or when the session call reports an error,
\* getCurrentUser returns null and sends neither the role lookup nor the
\* profile lookup.
C5_NoSessionNoLookups ==
    CalledGetCurrentUser /\ (session = NoUser \/ "auth.getSession" \in last.failed) =>
        /\ last.ret = Null
        /\ last.calls = << "auth.getSession" >>

\* C5 witness: the session call of checkAuth reported an error while a
\* session was stored; nothing was returned and the page went to /auth
C5_Witness ==
    /\ last.op = "checkAuth"
    /\ session # NoUser
    /\ "auth.getSession" \in last.failed
    /\ last.ret = Null
    /\ route = "/auth"

\* the last handler was the submission of the create form
CreateSubmitted == last.op = "handleSubmit" /\ ~last.edit

\* the last submission was turned down by validation with this message,
\* before any request
RejectedWith(message) ==
    /\ last.calls = << >>
    /\ last.toasts = << Toast("Validation Error", message) >>

\* the last submission sent its insert, and the row it wrote on success
\* holds the submitted title
InsertSent ==
    /\ last.calls # << >>
    /\ last.calls[1] = "tasks.insert"
    /\ last.error = NoError =>
          \E r \in tasksTable : r.id = last.id /\ r.title = last.form.title

\* the fields of the submitted form other than the title let it through
RestOfFormPasses ==
    /\ ~(last.form.description # EmptyStr
         /\ StrLen(last.form.description) > DescriptionMax)
    /\ ~DueDateThrows(last.form)

FirstViolation(fd) ==
    IF StrLen(Trim(fd.title)) < TitleMin THEN "Title is required"
    ELSE IF StrLen(Trim(fd.title)) > TitleMax THEN "Title too long"
    ELSE IF fd.description # EmptyStr /\ StrLen(fd.description) > DescriptionMax
         THEN "Description too long"
    ELSE IF fd.status \notin Statuses \/ fd.priority \notin Priorities
         THEN "Invalid enum value"
    ELSE ""

C7_FirstViolationReported ==
    (last.op = "handleSubmit" /\ FirstViolation(last.form) # "") =>
        /\ RejectedWith(FirstViolation(last.form))
        /\ ~last.threw

C7_StoreUntouched ==
    (last'.op = "handleSubmit" /\ FirstViolation(formData) # "") =>
        UNCHANGED << tasksTable, nextId >>

C8_StoredWithinBounds ==
    \A r \in tasksTable :
        /\ StrLen(r.title) >= TitleMin
        /\ StrLen(r.title) <= TitleMax
        /\ \A d \in r.description : StrLen(d) <= DescriptionMax

\* C9 as claimed: a submitted due date that does not parse is rejected by
\* validation before any request and never reaches the conversion to a
\* timestamp.
C9_UnparsableDueDateRejected ==
    (last.op = "handleSubmit" /\ DueDateThrows(last.form)) =>
        /\ last.calls = << >>
        /\ ~last.threw
        /\ last.toasts # << >>
        /\ last.toasts[1].title = "Validation Error"

SameButStatus(r, q) ==
    /\ DOMAIN q = DOMAIN r
    /\ \A f \in DOMAIN r \ {"status"} : q[f] = r[f]

C10_OtherFieldsKept ==
    /\ Cardinality(tasksTable') = Cardinality(tasksTable)
    /\ \A r \in tasksTable :
          \E q \in tasksTable' :
             /\ q.id = r.id
             /\ SameButStatus(r, q)
             /\ r.id # last'.id => q = r

C10_AnyStatusSet ==
    \A r \in tasksTable :
        (r.id = last'.id /\ r.user_id = session /\ last'.error = NoError) =>
            \E q \in tasksTable' : q.id = r.id /\ q.status = last'.arg

\* C10: a status change through handleStatusChange leaves the title, the
\* description, the priority, the due date and the owner of every row as
\* they were, and sets the status it was called with on the caller's row
\* whatever the status before.
C10_StatusChangeWritesStatusOnly ==
    [][last'.op = "handleStatusChange" =>
          (C10_OtherFieldsKept /\ C10_AnyStatusSet)]_vars

\* C10 witness: a task of high priority was moved back to pending
C10_Witness ==
    /\ last.op = "handleStatusChange"
    /\ last.count = 1
    /\ last.arg = "pending"
    /\ \E r \in tasksTable :
          r.id = last.id /\ r.status = "pending" /\ r.priority = "high"

\* the create form sent its insert
CreateInsertSent ==
    /\ CreateSubmitted
    /\ last.calls # << >>
    /\ last.calls[1] = "tasks.insert"

\* C11 as claimed: an insert succeeds only when the owner id it carries is
\* the caller's identity, and every insert the create form sends while
\* somebody is signed in carries the id of that identity.
C11_AsClaimed ==
    /\ (CreateInsertSent /\ last.error = NoError) => last.owner = session
    /\ (CreateInsertSent /\ session # NoUser) => last.owner = session

\* nothing is left that would change the cached user: every event has been
\* delivered and every lookup has resumed
Settled ==
    /\ route = "/dashboard"
    /\ ~isLoading
    /\ events = << >>
    /\ lookups = {}
    /\ session # NoUser

\* C14 as claimed, seen once the Dashboard has come to rest: after the last
\* event has been delivered and all overlapping lookups have resumed, the
\* cached user has the identity and the role of the current session.
C14_AsClaimed ==
    (Settled /\ user.some) =>
        /\ user.id = session
        /\ user.role = ResolvedRole(user_roles[session])

\* C16: when checkAuth got no identity from getCurrentUser, the page is
\* /auth, no task-list request was issued, the cached user is not set and
\* the Dashboard is still in its loading state.
C16_NoIdentityRedirects ==
    (last.op = "checkAuth" /\ ~last.ret.some) =>
        /\ route = "/auth"
        /\ \A i \in DOMAIN last.calls : last.calls[i] # "tasks.select"
        /\ user = Null
        /\ tasks = << >>
        /\ isLoading

\* C16 witness: the session was lost before checkAuth looked it up, and
\* checkAuth sent the browser to /auth
C16_Witness ==
    /\ last.op = "checkAuth"
    /\ last.ret = Null
    /\ last.failed = {}
    /\ session = NoUser
    /\ route = "/auth"

\* C18 as claimed: whenever the Dashboard has left its loading state, the
\* cached user is non-null.
C18_AsClaimed == (route = "/dashboard" /\ ~isLoading) => user.some

\* the requests that write a task
Writes == {"tasks.update", "tasks.delete"}

\* C12 as claimed: at no time are two requests that write the same task
\* (status change, edit or delete) in flight from the client.
C12_AsClaimed ==
    \A r1, r2 \in requests :
        (r1 # r2 /\ r1.pc = "sent" /\ r2.pc = "sent"
         /\ r1.call \in Writes /\ r2.call \in Writes) => r1.id # r2.id

\* the fields an edit submission writes
FormFields ==
    {"title", "description", "status", "priority", "due_date", "user_id"}

C13_ServedUpdate ==
    \A r \in requests : \A q \in requests' :
        (r.pc = "sent" /\ r.call = "tasks.update"
         /\ q.n = r.n /\ q.pc = "answered") =>
            LET patch == CHOOSE x \in r.patch : TRUE
            IN  /\ r.h = "handleSubmit" => DOMAIN patch = FormFields
                /\ (\E row \in tasksTable : row.id = r.id) =>
                      /\ q.error = NoError
                      /\ q.count = 1
                      /\ \E row \in tasksTable' :
                            /\ row.id = r.id
                            /\ \A f \in DOMAIN patch : row[f] = patch[f]

\* C13: an update that finds its row is applied whatever the row holds by
\* then, and every field it writes has its value afterwards; an edit
\* submission writes all fields of the form, the status among them, so it
\* overwrites a status change served after the form was opened.
C13_LastWriterWins == [][C13_ServedUpdate]_vars

\* C13 witness: the edit form was opened on a pending task, a status change
\* to completed was served, and then the edit submission was served and
\* made the task pending again
C13_Witness ==
    /\ last.op = "Serve"
    /\ last.edit
    /\ last.count = 1
    /\ last.arg = "completed"
    /\ \E row \in tasksTable :
          row.id = last.id /\ row.status = "pending" /\ row.priority = "high"

C15_Resumed ==
    \A r \in requests :
        (r.pc = "answered" /\ r.error # NoError /\ r \notin requests') =>
            /\ requests' = requests \ {r}
            /\ tasksTable' = tasksTable
            /\ last'.op = r.h
            /\ last'.error = r.error
            /\ Len(last'.toasts) = 1
            /\ last'.toasts[1].title = "Error"
            /\ ~last'.threw

\* C15: a handler that resumes with an error of its request (list, create,
\* edit, status change, delete) shows one error toast, throws nothing and
\* sends no further request.
C15_ErrorIsTerminal == [][C15_Resumed]_vars

\* C15 witness: the insert of the create form failed in the data layer; the
\* error was shown, the dialog stayed open and nothing is in flight
C15_Witness ==
    /\ last.op = "handleSubmit"
    /\ ~last.edit
    /\ last.error = StorageError
    /\ last.toasts = << Toast("Error", StorageError) >>
    /\ requests = {}
    /\ dialogOpen
    /\ ~formLoading

\* onSuccess ran in the last submission: the list was reloaded
OnSuccessInvoked ==
    \E i \in DOMAIN last.calls : last.calls[i] = "tasks.select"

\* C17 as claimed: onSuccess runs only after the insert or update returned
\* without error, never after a validation failure or a storage error, and
\* when handleSubmit has finished isLoading is false.
C17_AsClaimed ==
    last.op = "handleSubmit" =>
        /\ OnSuccessInvoked =>
              /\ last.calls[1] \in {"tasks.insert", "tasks.update"}
              /\ last.error = NoError
        /\ (last.calls = << >> \/ last.error # NoError) =>
              /\ ~OnSuccessInvoked
              /\ FormMounted
        /\ ~formLoading

====
